---- MODULE Spec2Model ----
(***************************************************************************)
(* Inventory backend of app_firebase.py: the Firestore collections         *)
(* 'medicamentos' and 'movimientos', the Flask handlers that write them,   *)
(* the stock derived from the movement log, the status bands and the       *)
(* demand analysis.                                                        *)
(*                                                                         *)
(* Conventions.  A JSON request body is a record whose DOMAIN holds the    *)
(* keys the client sent; data.get(k) is Get(data, k, None).  A date is the *)
(* text Python compares (str >= str): here a fixed-width, zero-padded,     *)
(* most-significant-first digit string, <<tens, units>> of a day number,   *)
(* compared lexicographically like the YYYY-MM-DD text of the source.      *)
(***************************************************************************)
EXTENDS Integers, Sequences, FiniteSets, TLC

VARIABLES
    db,            \* TRUE when firestore.client() was obtained (db is not None)
    medicamentos,  \* collection 'medicamentos': document id -> fields
    movimientos,   \* collection 'movimientos': document id -> fields
    ids_med,       \* number of document ids the store has issued for medicamentos
    ids_mov,       \* number of document ids the store has issued for movimientos
    vuelo,         \* crear_movimiento requests between their stock check and their insert
    entrada,       \* the inputs of the pure-function specifications
    last           \* the last response: handler, status code, request and body

vars == <<db, medicamentos, movimientos, ids_med, ids_mov, vuelo, entrada, last>>

----------------------------------------------------------------------------
(* Bounds of the model *)

MaxMeds == 2       \* document ids the store issues for medicamentos
MaxMovs == 3       \* document ids the store issues for movimientos
MaxCantidad == 2   \* largest cantidad a request carries
MaxLog == 3        \* movements of a log given to a stock query
MaxStock == 7      \* largest stock of the status-band inputs
MaxMinimo == 3     \* largest stock_minimo of the status-band inputs
MaxDias == 2       \* largest 'dias' argument of analisis_demanda
Hoy == 10
MaxRanking == 11          \* the day number datetime.now() falls on

None == "None"
Nada == [nada |-> TRUE]

MedIds == 1..MaxMeds
MovIds == 1..MaxMovs
Workers == {"w1", "w2"}

----------------------------------------------------------------------------
(* Python helpers *)

Get(data, k, default) == IF k \in DOMAIN data THEN data[k] ELSE default

\* str.strip() on a text given as a sequence of one-character strings
RECURSIVE lstrip(_)
lstrip(s) == IF s # <<>> /\ Head(s) = " " THEN lstrip(Tail(s)) ELSE s

RECURSIVE rstrip(_)
rstrip(s) ==
    IF s # <<>> /\ s[Len(s)] = " " THEN rstrip(SubSeq(s, 1, Len(s) - 1)) ELSE s

strip(s) == rstrip(lstrip(s))

\* date.isoformat() / str(date): fixed width, zero padded, most significant first
isoformat(dia) == <<dia \div 10, dia % 10>>

\* a <= b on texts: lexicographic on the characters, a proper prefix being smaller
RECURSIVE str_le(_, _)
str_le(a, b) ==
    IF a = <<>> THEN TRUE
    ELSE IF b = <<>> THEN FALSE
    ELSE IF Head(a) # Head(b) THEN Head(a) < Head(b)
    ELSE str_le(Tail(a), Tail(b))

str_ge(a, b) == str_le(b, a)

\* every order in which a query's stream() may yield the documents of S
Stream(S) ==
    {f \in [1..Cardinality(S) -> S] : \A i, j \in DOMAIN f : i # j => f[i] # f[j]}

----------------------------------------------------------------------------
(* Derived stock *)

\* (mutant) the query without its where clause
where_sin_filtro(movs, id) == DOMAIN movs

\* db.collection('movimientos').where('medicamento_id', '==', id)
where_medicamento_id(movs, id) == {d \in DOMAIN movs : movs[d].medicamento_id = id}

\* the for loop of calcular_stock_medicamento over the documents yielded
RECURSIVE stock_loop(_, _, _, _, _)
stock_loop(movs, docs, i, ingresos, salidas) ==
    IF i > Len(docs) THEN ingresos - salidas
    ELSE LET mov == movs[docs[i]]
             tipo == mov.tipo
             cantidad == mov.cantidad
         IN  IF tipo = "INGRESO"
             THEN stock_loop(movs, docs, i + 1, ingresos + cantidad, salidas)
             ELSE IF tipo = "SALIDA"
             THEN stock_loop(movs, docs, i + 1, ingresos, salidas + cantidad)
             ELSE stock_loop(movs, docs, i + 1, ingresos, salidas)

\* calcular_stock_medicamento, docs being the order the stream yields
\* (mutant) a full shelf for the neutral value
stock_lleno_sin_datos(conectada, movs, docs) ==
    IF ~conectada THEN MaxStock ELSE stock_loop(movs, docs, 1, 0, 0)

calcular_stock_medicamento(conectada, movs, docs) ==
    IF ~conectada THEN 0 ELSE stock_loop(movs, docs, 1, 0, 0)

\* db is set and the stream of the query does not raise: 'entrada' holds the
\* condition of the storage where a specification lets its reads fail
lectura_disponible == db /\ Get(entrada, "lectura", "ok") = "ok"

\* the stock a call of calcular_stock_medicamento(id) may return
stocks_posibles(conectada, movs, id) ==
    {calcular_stock_medicamento(conectada, movs, docs) :
        docs \in Stream(where_medicamento_id(movs, id))}

----------------------------------------------------------------------------
(* Status bands of get_inventario.  stock <= stock_minimo * 1.5 compares an  *)
(* int with a float; both sides are doubled to stay in the integers.         *)

\* (mutant) the BAJO band exclusive of its upper boundary
estado_estricto(stock, stock_minimo) ==
    IF stock <= 0 THEN "AGOTADO"
    ELSE IF stock <= stock_minimo THEN "CRITICO"
    ELSE IF 2 * stock < 3 * stock_minimo THEN "BAJO"
    ELSE "OK"

\* (mutant) the BAJO band as an absolute margin over the minimum
estado_margen(stock, stock_minimo) ==
    IF stock <= 0 THEN "AGOTADO"
    ELSE IF stock <= stock_minimo THEN "CRITICO"
    ELSE IF stock <= stock_minimo + 1 THEN "BAJO"
    ELSE "OK"

estado(stock, stock_minimo) ==
    IF stock <= 0 THEN "AGOTADO"
    ELSE IF stock <= stock_minimo THEN "CRITICO"
    ELSE IF 2 * stock <= 3 * stock_minimo THEN "BAJO"
    ELSE "OK"

----------------------------------------------------------------------------
(* Responses.  jsonify(body), status *)

Respuesta(op, status, id, data, body) ==
    [op |-> op, status |-> status, id |-> id, data |-> data, body |-> body]

Error(msg) == [error |-> msg]
Mensaje(msg) == [mensaje |-> msg]

SinCambios == UNCHANGED <<db, medicamentos, movimientos, ids_med, ids_mov, vuelo, entrada>>

----------------------------------------------------------------------------
(* /api/medicamentos *)

\* (mutant) max_orden left at its initial 0
max_orden_inicial(meds) == 0

\* order_by('orden', direction=DESCENDING).limit(1): the largest stored orden, 0 if none
max_orden(meds) ==
    IF DOMAIN meds = {} THEN 0
    ELSE CHOOSE o \in {meds[d].orden : d \in DOMAIN meds} :
             \A d \in DOMAIN meds : meds[d].orden <= o

\* where('nombre', '==', nombre): sum(1 for _ in existing) > 0
existe_nombre(meds, nombre) == \E d \in DOMAIN meds : meds[d].nombre = nombre

\* POST /api/medicamentos
crear_medicamento(data) ==
    LET nombre == strip(Get(data, "nombre", <<>>))
        stock_minimo == Get(data, "stock_minimo", 10)
        R(status, body) == Respuesta("crear_medicamento", status, 0, data, body)
    IN  IF ~db
        THEN last' = R(500, Error("Base de datos no disponible")) /\ SinCambios
        ELSE IF nombre = <<>>
        THEN last' = R(400, Error("El nombre del medicamento es obligatorio")) /\ SinCambios
        ELSE IF stock_minimo < 1
        THEN last' = R(400, Error("El stock minimo debe ser mayor a 0")) /\ SinCambios
        ELSE IF existe_nombre(medicamentos, nombre)
        THEN last' = R(409, Error("El medicamento ya existe")) /\ SinCambios
        ELSE /\ ids_med < MaxMeds
             /\ ids_med' = ids_med + 1
             /\ medicamentos' =
                    [d \in DOMAIN medicamentos \cup {ids_med + 1} |->
                        IF d = ids_med + 1
                        THEN [nombre |-> nombre, stock_minimo |-> stock_minimo,
                              orden |-> max_orden(medicamentos) + 1]
                        ELSE medicamentos[d]]
             /\ last' = Respuesta("crear_medicamento", 201, ids_med + 1, data,
                                  Mensaje("Medicamento agregado exitosamente"))
             /\ UNCHANGED <<db, movimientos, ids_mov, vuelo, entrada>>

\* (mutant) the delete without the count of referencing movements
eliminar_sin_contar(id) ==
    /\ medicamentos' = [d \in DOMAIN medicamentos \ {id} |-> medicamentos[d]]
    /\ last' = Respuesta("eliminar_medicamento_ruta", 200, id, Nada,
                         Mensaje("Medicamento eliminado exitosamente"))
    /\ UNCHANGED <<db, movimientos, ids_med, ids_mov, vuelo, entrada>>

\* DELETE /api/medicamentos/<id>
eliminar_medicamento_ruta(id) ==
    LET count == Cardinality(where_medicamento_id(movimientos, id))
        R(status, body) == Respuesta("eliminar_medicamento_ruta", status, id, Nada, body)
    IN  IF ~db
        THEN last' = R(500, Error("Base de datos no disponible")) /\ SinCambios
        ELSE IF count > 0
        THEN last' = R(400, Error("No se puede eliminar")) /\ SinCambios
        ELSE /\ medicamentos' = [d \in DOMAIN medicamentos \ {id} |-> medicamentos[d]]
             /\ last' = R(200, Mensaje("Medicamento eliminado exitosamente"))
             /\ UNCHANGED <<db, movimientos, ids_med, ids_mov, vuelo, entrada>>

\* (mutant) the update writing whatever stock_minimo it is sent
actualizar_sin_minimo(id, data) ==
    /\ db
    /\ id \in DOMAIN medicamentos
    /\ "nombre" \in DOMAIN data
    /\ medicamentos' =
           [medicamentos EXCEPT ![id] =
               [nombre |-> strip(data.nombre),
                stock_minimo |-> Get(data, "stock_minimo", @.stock_minimo),
                orden |-> @.orden]]
    /\ last' = Respuesta("actualizar_medicamento_ruta", 200, id, data,
                         Mensaje("Medicamento actualizado exitosamente"))
    /\ UNCHANGED <<db, movimientos, ids_med, ids_mov, vuelo, entrada>>

\* PUT /api/medicamentos/<id>; document(id).update raises NotFound on a missing
\* document, which the handler's except turns into a 500
actualizar_medicamento_ruta(id, data) ==
    LET nombre == strip(Get(data, "nombre", <<>>))
        R(status, body) == Respuesta("actualizar_medicamento_ruta", status, id, data, body)
    IN  IF ~db
        THEN last' = R(500, Error("Base de datos no disponible")) /\ SinCambios
        ELSE IF nombre = <<>>
        THEN last' = R(400, Error("El nombre del medicamento es obligatorio")) /\ SinCambios
        ELSE IF "stock_minimo" \in DOMAIN data /\ data.stock_minimo < 1
        THEN last' = R(400, Error("El stock minimo debe ser mayor a 0")) /\ SinCambios
        ELSE IF id \notin DOMAIN medicamentos
        THEN last' = R(500, Error("NotFound")) /\ SinCambios
        ELSE /\ medicamentos' =
                    [medicamentos EXCEPT ![id] =
                        [nombre |-> nombre,
                         stock_minimo |-> Get(data, "stock_minimo", @.stock_minimo),
                         orden |-> @.orden]]
             /\ last' = R(200, Mensaje("Medicamento actualizado exitosamente"))
             /\ UNCHANGED <<db, movimientos, ids_med, ids_mov, vuelo, entrada>>

----------------------------------------------------------------------------
(* /api/movimientos *)

\* Python truth of data.get(k): the key is present and its value neither 0, '' nor None
truthy_int(data, k) == k \in DOMAIN data /\ data[k] # 0
truthy_str(data, k) == k \in DOMAIN data /\ data[k] # "" /\ data[k] # None
truthy_txt(data, k) == k \in DOMAIN data /\ data[k] # <<>>

\* (mutant) the checks without the one on the sign of cantidad
validar_sin_signo(data) ==
    IF ~(/\ truthy_str(data, "tipo")
         /\ truthy_txt(data, "fecha")
         /\ truthy_int(data, "medicamento_id")
         /\ truthy_int(data, "cantidad"))
    THEN "Datos incompletos"
    ELSE IF data.tipo \notin {"INGRESO", "SALIDA"} THEN "Tipo invalido"
    ELSE "ok"

\* (mutant) the checks without the one on tipo
validar_sin_tipo(data) ==
    IF ~(/\ truthy_str(data, "tipo")
         /\ truthy_txt(data, "fecha")
         /\ truthy_int(data, "medicamento_id")
         /\ truthy_int(data, "cantidad"))
    THEN "Datos incompletos"
    ELSE IF data.cantidad <= 0 THEN "Cantidad debe ser mayor a 0"
    ELSE "ok"

\* the checks of crear_movimiento before the stock check: an error message, or "ok"
validar_movimiento(data) ==
    IF ~(/\ truthy_str(data, "tipo")
         /\ truthy_txt(data, "fecha")
         /\ truthy_int(data, "medicamento_id")
         /\ truthy_int(data, "cantidad"))
    THEN "Datos incompletos"
    ELSE IF data.tipo \notin {"INGRESO", "SALIDA"} THEN "Tipo invalido"
    ELSE IF data.cantidad <= 0 THEN "Cantidad debe ser mayor a 0"
    ELSE "ok"

\* (mutant) the comparison rejecting a SALIDA of exactly the stock
stock_insuficiente_o_igual(data, stock_actual) ==
    data.tipo = "SALIDA" /\ stock_actual <= data.cantidad

\* (mutant) the check rejecting a SALIDA only when nothing is in stock
stock_agotado(data, stock_actual) ==
    data.tipo = "SALIDA" /\ stock_actual <= 0

\* if tipo == 'SALIDA': ... if stock_actual < cantidad
stock_insuficiente(data, stock_actual) ==
    data.tipo = "SALIDA" /\ stock_actual < data.cantidad

\* the document crear_movimiento adds (fecha_vencimiento, observaciones and
\* fecha_registro are stored too and read by no handler modelled here)
nuevo_movimiento(data) ==
    [tipo |-> data.tipo, fecha |-> data.fecha,
     medicamento_id |-> data.medicamento_id, cantidad |-> data.cantidad,
     turno |-> Get(data, "turno", None)]

\* db.collection('movimientos').add(doc): a fresh document id
add_movimiento(movs, id, doc) ==
    [d \in DOMAIN movs \cup {id} |-> IF d = id THEN doc ELSE movs[d]]

\* the stock crear_movimiento reads: only a SALIDA calls calcular_stock_medicamento
stock_leido(data) ==
    IF data.tipo = "SALIDA"
    THEN stocks_posibles(lectura_disponible, movimientos, data.medicamento_id)
    ELSE {0}

\* POST /api/movimientos, the handler run without interleaving
crear_movimiento(data) ==
    LET R(status, body) == Respuesta("crear_movimiento", status, 0, data, body)
    IN  IF ~db
        THEN last' = R(500, Error("Base de datos no disponible")) /\ SinCambios
        ELSE IF validar_movimiento(data) # "ok"
        THEN last' = R(400, Error(validar_movimiento(data))) /\ SinCambios
        ELSE \E stock_actual \in stock_leido(data) :
                IF stock_insuficiente(data, stock_actual)
                THEN /\ last' = R(400, [error |-> "Stock insuficiente",
                                        stock_actual |-> stock_actual,
                                        cantidad_solicitada |-> data.cantidad])
                     /\ SinCambios
                ELSE /\ ids_mov < MaxMovs
                     /\ ids_mov' = ids_mov + 1
                     /\ movimientos' =
                            add_movimiento(movimientos, ids_mov + 1, nuevo_movimiento(data))
                     /\ last' = Respuesta("crear_movimiento", 201, ids_mov + 1, data,
                                          Mensaje("Movimiento registrado"))
                     /\ UNCHANGED <<db, medicamentos, ids_med, vuelo, entrada>>

\* DELETE /api/movimientos/<id>: document(id).delete() succeeds on a missing document
eliminar_movimiento(id) ==
    LET R(status, body) == Respuesta("eliminar_movimiento", status, id, Nada, body)
    IN  IF ~db
        THEN last' = R(500, Error("Base de datos no disponible")) /\ SinCambios
        ELSE /\ movimientos' = [d \in DOMAIN movimientos \ {id} |-> movimientos[d]]
             /\ last' = R(200, Mensaje("Movimiento eliminado"))
             /\ UNCHANGED <<db, medicamentos, ids_med, ids_mov, vuelo, entrada>>

\* (mutant) the update as a set(): a turno that is not sent is cleared
actualizar_con_set(id, data) ==
    /\ db
    /\ id \in DOMAIN movimientos
    /\ truthy_int(data, "cantidad") /\ data.cantidad >= 1
    /\ truthy_txt(data, "fecha")
    /\ movimientos' =
           [movimientos EXCEPT ![id] =
               [tipo |-> @.tipo, medicamento_id |-> @.medicamento_id,
                cantidad |-> data.cantidad, fecha |-> data.fecha,
                turno |-> Get(data, "turno", None)]]
    /\ last' = Respuesta("actualizar_movimiento", 200, id, data,
                         Mensaje("Movimiento actualizado"))
    /\ UNCHANGED <<db, medicamentos, ids_med, ids_mov, vuelo, entrada>>

\* PUT /api/movimientos/<id>
actualizar_movimiento(id, data) ==
    LET R(status, body) == Respuesta("actualizar_movimiento", status, id, data, body)
    IN  IF ~db
        THEN last' = R(500, Error("Base de datos no disponible")) /\ SinCambios
        ELSE IF ~truthy_int(data, "cantidad") \/ data.cantidad < 1
        THEN last' = R(400, Error("Cantidad invalida")) /\ SinCambios
        ELSE IF ~truthy_txt(data, "fecha")
        THEN last' = R(400, Error("Fecha requerida")) /\ SinCambios
        ELSE IF id \notin DOMAIN movimientos
        THEN last' = R(404, Error("Movimiento no encontrado")) /\ SinCambios
        ELSE /\ movimientos' =
                    [movimientos EXCEPT ![id] =
                        [tipo |-> @.tipo, medicamento_id |-> @.medicamento_id,
                         cantidad |-> data.cantidad, fecha |-> data.fecha,
                         turno |-> IF truthy_str(data, "turno") THEN data.turno
                                   ELSE @.turno]]
             /\ last' = R(200, Mensaje("Movimiento actualizado"))
             /\ UNCHANGED <<db, medicamentos, ids_med, ids_mov, vuelo, entrada>>

----------------------------------------------------------------------------
(* POST /api/movimientos as the server runs it: calcular_stock_medicamento is *)
(* one read of the store and add() a later write, with no lock and no         *)
(* transaction around them, so another request may run between the two.       *)

EnVuelo == {w \in Workers : vuelo[w] # Nada}

\* crear_movimiento up to and including its stock check
crear_movimiento_verificar(w, data) ==
    LET R(status, body) == Respuesta("crear_movimiento", status, 0, data, body)
    IN  /\ vuelo[w] = Nada
        /\ IF ~db
           THEN last' = R(500, Error("Base de datos no disponible")) /\ SinCambios
           ELSE IF validar_movimiento(data) # "ok"
           THEN last' = R(400, Error(validar_movimiento(data))) /\ SinCambios
           ELSE \E stock_actual \in stock_leido(data) :
                   IF stock_insuficiente(data, stock_actual)
                   THEN /\ last' = R(400, [error |-> "Stock insuficiente",
                                           stock_actual |-> stock_actual,
                                           cantidad_solicitada |-> data.cantidad])
                        /\ SinCambios
                   ELSE /\ ids_mov + Cardinality(EnVuelo) < MaxMovs
                        /\ vuelo' = [vuelo EXCEPT ![w] = [data |-> data]]
                        /\ UNCHANGED <<db, medicamentos, movimientos, ids_med,
                                       ids_mov, entrada, last>>

\* (mutant) the insert as a transaction that reads the stock again
crear_movimiento_insertar_transaccion(w) ==
    /\ vuelo[w] # Nada
    /\ vuelo' = [vuelo EXCEPT ![w] = Nada]
    /\ \E stock_actual \in stock_leido(vuelo[w].data) :
            IF stock_insuficiente(vuelo[w].data, stock_actual)
            THEN /\ last' = Respuesta("crear_movimiento", 400, 0, vuelo[w].data,
                                      Error("Stock insuficiente"))
                 /\ UNCHANGED <<db, medicamentos, movimientos, ids_med, ids_mov, entrada>>
            ELSE /\ ids_mov' = ids_mov + 1
                 /\ movimientos' = add_movimiento(movimientos, ids_mov + 1,
                                                  nuevo_movimiento(vuelo[w].data))
                 /\ last' = Respuesta("crear_movimiento", 201, ids_mov + 1, vuelo[w].data,
                                      Mensaje("Movimiento registrado"))
                 /\ UNCHANGED <<db, medicamentos, ids_med, entrada>>

\* crear_movimiento from db.collection('movimientos').add(...) to its response
crear_movimiento_insertar(w) ==
    /\ vuelo[w] # Nada
    /\ ids_mov' = ids_mov + 1
    /\ movimientos' =
            add_movimiento(movimientos, ids_mov + 1, nuevo_movimiento(vuelo[w].data))
    /\ vuelo' = [vuelo EXCEPT ![w] = Nada]
    /\ last' = Respuesta("crear_movimiento", 201, ids_mov + 1, vuelo[w].data,
                         Mensaje("Movimiento registrado"))
    /\ UNCHANGED <<db, medicamentos, ids_med, entrada>>

----------------------------------------------------------------------------
(* GET /api/analisis/demanda *)

\* the loop over where('tipo', '==', 'SALIDA').stream(): claves is the insertion
\* order of the dict 'demanda', dem its values
RECURSIVE demanda_loop(_, _, _, _, _, _)
demanda_loop(movs, docs, i, fecha_desde, claves, dem) ==
    IF i > Len(docs) THEN [claves |-> claves, dem |-> dem]
    ELSE LET mov == movs[docs[i]]
             med_id == mov.medicamento_id
         IN  IF str_ge(mov.fecha, fecha_desde)
             THEN LET nueva == med_id \notin DOMAIN dem
                      antes == IF nueva THEN [cantidad |-> 0, frecuencia |-> 0]
                               ELSE dem[med_id]
                      despues == [cantidad |-> antes.cantidad + mov.cantidad,
                                  frecuencia |-> antes.frecuencia + 1]
                  IN  demanda_loop(movs, docs, i + 1, fecha_desde,
                          IF nueva THEN Append(claves, med_id) ELSE claves,
                          [k \in DOMAIN dem \cup {med_id} |->
                              IF k = med_id THEN despues ELSE dem[k]])
             ELSE demanda_loop(movs, docs, i + 1, fecha_desde, claves, dem)

\* the loop over demanda.items(): one entry for each key whose medication exists
\* (promedio_diario, round(cantidad / dias, 2), is left out of the entry)
RECURSIVE resultado_loop(_, _, _, _)
resultado_loop(meds, claves, dem, i) ==
    IF i > Len(claves) THEN <<>>
    ELSE LET med_id == claves[i]
             resto == resultado_loop(meds, claves, dem, i + 1)
         IN  IF med_id \in DOMAIN meds
             THEN <<[nombre |-> meds[med_id].nombre,
                     total_dispensado |-> dem[med_id].cantidad,
                     frecuencia |-> dem[med_id].frecuencia]>> \o resto
             ELSE resto

\* the list left in the insertion order of the dict
sin_ordenar(lista) == lista

\* list.sort(key=total_dispensado, reverse=True): stable, equal keys keep their order
RECURSIVE insertar_desc(_, _)
insertar_desc(ordenada, x) ==
    IF ordenada = <<>> THEN <<x>>
    ELSE IF Head(ordenada).total_dispensado >= x.total_dispensado
    THEN <<Head(ordenada)>> \o insertar_desc(Tail(ordenada), x)
    ELSE <<x>> \o ordenada

RECURSIVE sort_desc(_)
sort_desc(lista) ==
    IF lista = <<>> THEN <<>>
    ELSE insertar_desc(sort_desc(SubSeq(lista, 1, Len(lista) - 1)), lista[Len(lista)])

\* resultado[:10]
top10(lista) == SubSeq(lista, 1, IF Len(lista) < 10 THEN Len(lista) ELSE 10)

\* where('tipo', '==', 'SALIDA')
where_salida(movs) == {d \in DOMAIN movs : movs[d].tipo = "SALIDA"}

\* fecha_desde = (datetime.now() - timedelta(days=dias)).date().isoformat()
fecha_desde_de(dias) == isoformat(Hoy - dias)

\* the handler, the query's stream yielding the SALIDA documents in one of 'ordenes'
analisis_demanda_con(dias, ordenes) ==
    LET R(status, body) == Respuesta("analisis_demanda", status, 0, [dias |-> dias], body)
    IN  /\ SinCambios
        /\ IF ~db
           THEN last' = R(500, Error("Base de datos no disponible"))
           ELSE \E docs \in ordenes :
                   LET d == demanda_loop(movimientos, docs, 1, fecha_desde_de(dias),
                                         <<>>, <<>>)
                       resultado == resultado_loop(medicamentos, d.claves, d.dem, 1)
                   IN  IF dias = 0 /\ resultado # <<>>
                       THEN last' = R(500, Error("division by zero"))
                       ELSE last' = R(200, top10(sort_desc(resultado)))

analisis_demanda(dias) == analisis_demanda_con(dias, Stream(where_salida(movimientos)))

\* the documents of S by ascending id, and a sequence backwards
RECURSIVE por_id(_)
por_id(S) ==
    IF S = {} THEN <<>>
    ELSE LET d == CHOOSE x \in S : \A y \in S : x <= y
         IN  <<d>> \o por_id(S \ {d})

al_reves(docs) == [i \in 1..Len(docs) |-> docs[Len(docs) + 1 - i]]

----------------------------------------------------------------------------
(* GET /api/reportes/semanal-excel, GET /api/reportes/quincenal-excel *)

\* two shifts for three
DosTurnos == <<"M", "T">>

\* for turno in ['M', 'T', 'N']
Turnos == <<"M", "T", "N">>

\* the header loop of crear_reporte_excel: for each day the date over three
\* merged columns and M, T, N below them, col += 3
RECURSIVE encabezado_loop(_, _, _, _, _, _)
encabezado_loop(fecha_inicio, dias, dia_offset, col, fechas, turnos) ==
    IF dia_offset >= dias THEN [col |-> col, fechas |-> fechas, turnos |-> turnos]
    ELSE LET fecha_dia == fecha_inicio + dia_offset
         IN  encabezado_loop(fecha_inicio, dias, dia_offset + 1, col + 3,
                 [c \in DOMAIN fechas \cup {col} |->
                     IF c = col THEN isoformat(fecha_dia) ELSE fechas[c]],
                 [c \in DOMAIN turnos \cup {col, col + 1, col + 2} |->
                     IF c = col THEN "M"
                     ELSE IF c = col + 1 THEN "T"
                     ELSE IF c = col + 2 THEN "N"
                     ELSE turnos[c]])

\* total += mov.get('cantidad', 0) over the movements of S
RECURSIVE sumar(_, _)
sumar(movs, S) ==
    IF S = {} THEN 0
    ELSE LET d == CHOOSE x \in S : TRUE
         IN  movs[d].cantidad + sumar(movs, S \ {d})

\* movimientos_salida: the SALIDA movements of the medication
movimientos_salida(movs, med_id) ==
    {d \in where_medicamento_id(movs, med_id) : movs[d].tipo = "SALIDA"}

\* the loops over the days and the shifts of one medication row: a cell is
\* written only when its total is positive, col_idx += 1 either way
RECURSIVE celdas_loop(_, _, _, _, _, _, _, _)
celdas_loop(movs, salidas, fecha_inicio, dias, dia_offset, t, col_idx, celdas) ==
    IF dia_offset >= dias THEN [col_idx |-> col_idx, celdas |-> celdas]
    ELSE IF t > Len(Turnos)
    THEN celdas_loop(movs, salidas, fecha_inicio, dias, dia_offset + 1, 1, col_idx, celdas)
    ELSE LET fecha_dia == fecha_inicio + dia_offset
             total == sumar(movs, {d \in salidas :
                                      /\ movs[d].fecha = isoformat(fecha_dia)
                                      /\ movs[d].turno = Turnos[t]})
         IN  celdas_loop(movs, salidas, fecha_inicio, dias, dia_offset, t + 1, col_idx + 1,
                 IF total > 0
                 THEN [c \in DOMAIN celdas \cup {col_idx} |->
                          IF c = col_idx THEN total ELSE celdas[c]]
                 ELSE celdas)

\* 'demanda': the SALIDA movements dated from fecha_inicio to fecha_fin
demanda_total(movs, salidas, fecha_inicio, fecha_fin) ==
    sumar(movs, {d \in salidas :
                    /\ str_ge(movs[d].fecha, isoformat(fecha_inicio))
                    /\ str_le(movs[d].fecha, isoformat(fecha_fin))})

\* one data row of the sheet
fila(meds, movs, med_id, fecha_inicio, fecha_fin, dias, col_demanda, col_stock) ==
    LET salidas == movimientos_salida(movs, med_id)
        c == celdas_loop(movs, salidas, fecha_inicio, dias, 0, 1, 5, <<>>)
    IN  [nombre |-> meds[med_id].nombre,
         celdas |-> c.celdas,
         col_idx |-> c.col_idx,
         col_demanda |-> col_demanda,
         demanda |-> demanda_total(movs, salidas, fecha_inicio, fecha_fin),
         col_stock |-> col_stock,
         stock_actual |-> calcular_stock_medicamento(lectura_disponible, movs,
                              por_id(where_medicamento_id(movs, med_id)))]

\* collection('medicamentos').order_by('orden').stream()
order_by_orden(meds) ==
    {s \in Stream(DOMAIN meds) :
        \A i, j \in 1..Len(s) : i < j => meds[s[i]].orden <= meds[s[j]].orden}

\* the sheet: header columns from column 5, then DEMANDA TOTAL and STOCK
\* ACTUAL, and one row for each medication; None without a database
crear_reporte_excel(conectada, meds, movs, orden, fecha_inicio, fecha_fin) ==
    IF ~conectada THEN Nada
    ELSE LET dias == (fecha_fin - fecha_inicio) + 1
             e == encabezado_loop(fecha_inicio, dias, 0, 5, <<>>, <<>>)
             col_demanda == e.col
             col_stock == e.col + 1
         IN  [fechas |-> e.fechas,
              turnos |-> e.turnos,
              col_demanda |-> col_demanda,
              col_stock |-> col_stock,
              filas |-> [i \in 1..Len(orden) |->
                            fila(meds, movs, orden[i], fecha_inicio, fecha_fin, dias,
                                 col_demanda, col_stock)]]

\* datetime.strptime(fecha_inicio, '%Y-%m-%d').date()
strptime(fecha) == fecha[1] * 10 + fecha[2]

\* the two routes: fecha_fin = fecha_inicio + timedelta(days=mas)
generar_reporte_excel(op, args, mas) ==
    LET R(status, body) == Respuesta(op, status, 0, args, body)
    IN  /\ SinCambios
        /\ IF "fecha_inicio" \notin DOMAIN args
           THEN last' = R(400, Error("Fecha de inicio requerida"))
           ELSE \E orden \in order_by_orden(medicamentos) :
                   LET fecha_inicio == strptime(args.fecha_inicio)
                       fecha_fin == fecha_inicio + mas
                       wb == crear_reporte_excel(db, medicamentos, movimientos, orden,
                                                 fecha_inicio, fecha_fin)
                   IN  IF wb = Nada
                       THEN last' = R(500, Error("Error creando reporte"))
                       ELSE last' = R(200, wb)

generar_reporte_semanal_excel(args) ==
    generar_reporte_excel("generar_reporte_semanal_excel", args, 6)

generar_reporte_quincenal_excel(args) ==
    generar_reporte_excel("generar_reporte_quincenal_excel", args, 14)

----------------------------------------------------------------------------
(* GET /api/reportes/semanal-pdf, GET /api/reportes/quincenal-pdf *)

\* order_by('orden').limit(20)
limit(docs, n) == SubSeq(docs, 1, IF Len(docs) < n THEN Len(docs) ELSE n)

\* the demand of the days fecha_inicio .. fecha_inicio + 6, one entry per day
demanda_dia(movs, salidas, fecha_inicio) ==
    [i \in 1..7 |-> sumar(movs, {d \in salidas :
                                     movs[d].fecha = isoformat(fecha_inicio + i - 1)})]

RECURSIVE suma_lista(_)
suma_lista(lista) == IF lista = <<>> THEN 0 ELSE Head(lista) + suma_lista(Tail(lista))

\* one table row of the weekly PDF
fila_pdf_semanal(meds, movs, med_id, fecha_inicio) ==
    LET stock_inicial == calcular_stock_medicamento(lectura_disponible, movs,
                             por_id(where_medicamento_id(movs, med_id)))
        dem == demanda_dia(movs, movimientos_salida(movs, med_id), fecha_inicio)
    IN  [nombre |-> meds[med_id].nombre,
         stock_inicial |-> stock_inicial,
         demanda |-> dem,
         total_demanda |-> suma_lista(dem),
         stock_final |-> stock_inicial - suma_lista(dem)]

\* one table row of the biweekly PDF
fila_pdf_quincenal(meds, movs, med_id, fecha_inicio, fecha_fin) ==
    LET stock_inicial == calcular_stock_medicamento(lectura_disponible, movs,
                             por_id(where_medicamento_id(movs, med_id)))
        total_demanda == demanda_total(movs, movimientos_salida(movs, med_id),
                                       fecha_inicio, fecha_fin)
    IN  [nombre |-> meds[med_id].nombre,
         stock_inicial |-> stock_inicial,
         total_demanda |-> total_demanda,
         stock_final |-> stock_inicial - total_demanda]

\* without a database db.collection raises, the except answers 500
generar_reporte_semanal_pdf(args) ==
    LET R(status, body) == Respuesta("generar_reporte_semanal_pdf", status, 0, args, body)
    IN  /\ SinCambios
        /\ IF "fecha_inicio" \notin DOMAIN args
           THEN last' = R(400, Error("Fecha de inicio requerida"))
           ELSE IF ~db
           THEN last' = R(500, Error("'NoneType' object has no attribute 'collection'"))
           ELSE \E orden \in order_by_orden(medicamentos) :
                   LET docs == limit(orden, 20)
                   IN  last' = R(200, [i \in 1..Len(docs) |->
                                 fila_pdf_semanal(medicamentos, movimientos, docs[i],
                                                  strptime(args.fecha_inicio))])

generar_reporte_quincenal_pdf(args) ==
    LET R(status, body) == Respuesta("generar_reporte_quincenal_pdf", status, 0, args, body)
    IN  /\ SinCambios
        /\ IF "fecha_inicio" \notin DOMAIN args
           THEN last' = R(400, Error("Fecha de inicio requerida"))
           ELSE IF ~db
           THEN last' = R(500, Error("'NoneType' object has no attribute 'collection'"))
           ELSE \E orden \in order_by_orden(medicamentos) :
                   LET fecha_inicio == strptime(args.fecha_inicio)
                   IN  last' = R(200, [i \in 1..Len(orden) |->
                                 fila_pdf_quincenal(medicamentos, movimientos, orden[i],
                                                    fecha_inicio, fecha_inicio + 14)])

----------------------------------------------------------------------------
(* GET /api/medicamentos, /api/movimientos, /api/inventario, /api/estadisticas *)

get_medicamentos ==
    LET R(status, body) == Respuesta("get_medicamentos", status, 0, Nada, body)
    IN  /\ SinCambios
        /\ IF ~db
           THEN last' = R(500, Error("Base de datos no disponible"))
           ELSE \E orden \in order_by_orden(medicamentos) :
                   last' = R(200, [i \in 1..Len(orden) |->
                                     [id |-> orden[i]] @@ medicamentos[orden[i]]])

Desconocido == <<"Desconocido">>

\* the documents by fecha_registro descending (the insertion order backwards),
\* cut to 'limit', each with the nombre of its medication
get_movimientos(args) ==
    LET R(status, body) == Respuesta("get_movimientos", status, 0, args, body)
        docs == limit(al_reves(por_id(DOMAIN movimientos)), Get(args, "limit", 100))
    IN  /\ SinCambios
        /\ IF ~db
           THEN last' = R(500, Error("Base de datos no disponible"))
           ELSE last' = R(200, [i \in 1..Len(docs) |->
                   [id |-> docs[i],
                    medicamento_nombre |->
                        IF movimientos[docs[i]].medicamento_id \in DOMAIN medicamentos
                        THEN medicamentos[movimientos[docs[i]].medicamento_id].nombre
                        ELSE Desconocido]
                   @@ movimientos[docs[i]]])

\* the documents of S in the order the stream 'docs' yields them
filtrar(docs, S) == SelectSeq(docs, LAMBDA d : d \in S)

\* the fecha of ultimo_ingreso: replaced only by a later fecha; None without INGRESO
RECURSIVE ultimo_ingreso_loop(_, _, _, _)
ultimo_ingreso_loop(movs, docs, i, ultimo) ==
    IF i > Len(docs) THEN ultimo
    ELSE LET mov == movs[docs[i]]
         IN  IF mov.tipo = "INGRESO"
                /\ (ultimo = Nada \/ ~str_le(mov.fecha, ultimo.fecha))
             THEN ultimo_ingreso_loop(movs, docs, i + 1, [fecha |-> mov.fecha])
             ELSE ultimo_ingreso_loop(movs, docs, i + 1, ultimo)

\* the calendar of the model is one month of 31 days
egresos_mes(movs, salidas) ==
    sumar(movs, {d \in salidas : /\ str_ge(movs[d].fecha, isoformat(1))
                                 /\ str_le(movs[d].fecha, isoformat(31))})

\* one entry of the inventory, the queries yielding the documents as in 'docs'
entrada_inventario(meds, movs, docs, med_id) ==
    LET del_med == filtrar(docs, where_medicamento_id(movs, med_id))
        stock == calcular_stock_medicamento(lectura_disponible, movs, del_med)
        stock_minimo == meds[med_id].stock_minimo
    IN  [id |-> med_id,
         nombre |-> meds[med_id].nombre,
         stock_actual |-> stock,
         stock_minimo |-> stock_minimo,
         estado |-> estado(stock, stock_minimo),
         ultimo_ingreso |-> ultimo_ingreso_loop(movs, del_med, 1, Nada),
         egresos_mes |-> egresos_mes(movs, movimientos_salida(movs, med_id))]

\* (mutant) an inventory that clears the movements it has read
inventario_con_purga ==
    /\ movimientos' = <<>>
    /\ last' = Respuesta("get_inventario", 200, 0, Nada, <<>>)
    /\ UNCHANGED <<db, medicamentos, ids_med, ids_mov, vuelo, entrada>>

get_inventario ==
    LET R(status, body) == Respuesta("get_inventario", status, 0, Nada, body)
    IN  /\ SinCambios
        /\ IF ~db
           THEN last' = R(500, Error("Base de datos no disponible"))
           ELSE \E orden \in order_by_orden(medicamentos),
                   docs \in Stream(DOMAIN movimientos) :
                   last' = R(200, [i \in 1..Len(orden) |->
                               entrada_inventario(medicamentos, movimientos, docs, orden[i])])

get_estadisticas ==
    LET R(status, body) == Respuesta("get_estadisticas", status, 0, Nada, body)
    IN  /\ SinCambios
        /\ IF ~db
           THEN last' = R(500, Error("Base de datos no disponible"))
           ELSE \E docs \in Stream(DOMAIN movimientos) :
                   last' = R(200,
                       [total_medicamentos |-> Cardinality(DOMAIN medicamentos),
                        alertas_stock_bajo |->
                            Cardinality({id \in DOMAIN medicamentos :
                                calcular_stock_medicamento(lectura_disponible, movimientos,
                                    filtrar(docs, where_medicamento_id(movimientos, id)))
                                    <= medicamentos[id].stock_minimo}),
                        movimientos_hoy |->
                            Cardinality({d \in DOMAIN movimientos :
                                movimientos[d].fecha = isoformat(Hoy)})])

----------------------------------------------------------------------------
(* Pure functions applied to inputs drawn by Init *)

\* calcular_stock_medicamento(id) on the stored log, the stream yielding docs
leer_stock(id) ==
    /\ SinCambios
    /\ \E docs \in Stream(where_medicamento_id(movimientos, id)) :
            last' = Respuesta("calcular_stock_medicamento", 200, id, Nada,
                        [stock |-> calcular_stock_medicamento(lectura_disponible,
                                                              movimientos, docs),
                         docs |-> docs])

\* the reads of the storage start or stop failing
cambiar_lectura ==
    /\ "lectura" \in DOMAIN entrada
    /\ entrada' = [lectura |-> IF entrada.lectura = "ok" THEN "falla" ELSE "ok"]
    /\ UNCHANGED <<db, medicamentos, movimientos, ids_med, ids_mov, vuelo, last>>

\* the estado of get_inventario for two (stock, stock_minimo) pairs
clasificar ==
    /\ SinCambios
    /\ last' = Respuesta("estado", 200, 0, Nada,
                   [e1 |-> estado(entrada.s1, entrada.m1),
                    e2 |-> estado(entrada.s2, entrada.m2)])

----------------------------------------------------------------------------
(* Request bodies *)

Nombres == {<<"A">>, <<" ", "A">>, <<"B">>}

\* valid bodies, and one body for each way the handlers reject
PeticionesMedicamento ==
    {[nombre |-> n] : n \in Nombres}
    \cup {[nombre |-> <<" ">>], [stock_minimo |-> 2],
          [nombre |-> <<"A">>, stock_minimo |-> 0]}

\* bodies with a nombre, with and without stock_minimo, below 1 included
PeticionesMinimo ==
    {[nombre |-> n] : n \in {<<"A">>, <<"B">>}}
    \cup {[nombre |-> n, stock_minimo |-> m] : n \in {<<"A">>, <<"B">>}, m \in (-1)..MaxMinimo}
    \cup {[stock_minimo |-> 0]}

QuitarClave(r, k) == [x \in DOMAIN r \ {k} |-> r[x]]

PeticionesMovimiento(fechas) ==
    LET validas ==
            {[tipo |-> t, fecha |-> f, medicamento_id |-> m, cantidad |-> c] :
                t \in {"INGRESO", "SALIDA"}, f \in fechas,
                m \in MedIds, c \in 1..MaxCantidad}
        base == CHOOSE r \in validas : r.tipo = "INGRESO" /\ r.cantidad = 1
    IN  validas
        \cup {QuitarClave(base, k) : k \in {"tipo", "fecha", "medicamento_id", "cantidad"}}
        \cup {[base EXCEPT !.tipo = "OTRO"], [base EXCEPT !.cantidad = 0],
              [base EXCEPT !.tipo = "SALIDA", !.cantidad = -1]}

PeticionesActualizarMovimiento(fechas) ==
    {[cantidad |-> c, fecha |-> f] : c \in 0..MaxCantidad, f \in fechas}
    \cup {[cantidad |-> 1], [fecha |-> CHOOSE f \in fechas : TRUE]}

FechasLibro == {isoformat(Hoy)}

\* dates before the window of every 'dias', inside it, today and after today
FechasDemanda == {isoformat(d) : d \in {Hoy - MaxDias - 1, Hoy - MaxDias, Hoy, Hoy + 1}}

\* an INGRESO of one unit for each medication id: a reference to a medication
PeticionesReferencia ==
    {[tipo |-> "INGRESO", fecha |-> isoformat(Hoy), medicamento_id |-> m, cantidad |-> 1] :
        m \in MedIds}

\* the requests that concern one medication, and those that name none
PeticionesCarrera ==
    {r \in PeticionesMovimiento(FechasLibro) : Get(r, "medicamento_id", 1) = 1}

\* for medication 1: an INGRESO, and SALIDA of one unit around a report that
\* starts today: the day before, on its first day without turno and in the
\* afternoon, on the last day of a week and on the last day of a fortnight
PeticionesInforme ==
    LET salida(dia) == [tipo |-> "SALIDA", fecha |-> isoformat(dia),
                        medicamento_id |-> 1, cantidad |-> 1]
    IN  {[tipo |-> "INGRESO", fecha |-> isoformat(Hoy - 1), medicamento_id |-> 1,
          cantidad |-> MaxCantidad, turno |-> "M"],
         salida(Hoy),
         [turno |-> "M"] @@ salida(Hoy - 1),
         [turno |-> "T"] @@ salida(Hoy),
         [turno |-> "M"] @@ salida(Hoy + 6),
         [turno |-> "N"] @@ salida(Hoy + 14)}

\* the query string of a report request, with and without fecha_inicio
ArgsInforme == {[fecha_inicio |-> isoformat(Hoy)], [formato |-> "xlsx"]}

PeticionesValidas(fechas) == {r \in PeticionesMovimiento(fechas) : validar_movimiento(r) = "ok"}

\* the documents crear_movimiento stores, and the logs of up to MaxLog of them
Documentos ==
    {nuevo_movimiento(r) : r \in PeticionesValidas(FechasLibro)}

Libros == UNION {[1..n -> Documentos] : n \in 0..MaxLog}

----------------------------------------------------------------------------
(* Initial states *)

SinPeticiones ==
    /\ vuelo = [w \in Workers |-> Nada]
    /\ entrada = Nada
    /\ last = Respuesta("init", 0, 0, Nada, Nada)

\* the store after start-up on a connected, empty database served by a WSGI
\* server (inicializar_colecciones runs only under __main__)
Init ==
    /\ db = TRUE
    /\ medicamentos = <<>>
    /\ movimientos = <<>>
    /\ ids_med = 0
    /\ ids_mov = 0
    /\ SinPeticiones

\* medicamentos_orden of inicializar_colecciones, cut to the ids of the model
Letras == <<"A", "B", "C", "D", "E", "F", "G", "H", "I", "J", "K", "L", "M">>

Semilla == [d \in MedIds |-> <<Letras[d]>>]

\* inicializar_colecciones on an empty collection: enumerate(medicamentos_orden)
inicializar_colecciones ==
    [d \in MedIds |-> [nombre |-> Semilla[d], stock_minimo |-> 10, orden |-> d - 1]]

\* the first n documents inicializar_colecciones writes
catalogo_de(n) ==
    [d \in 1..n |-> [nombre |-> <<Letras[d]>>, stock_minimo |-> 10, orden |-> d - 1]]

\* the store after start-up under __main__ on a connected, empty database
InitSemilla ==
    /\ db = TRUE
    /\ medicamentos = inicializar_colecciones
    /\ movimientos = <<>>
    /\ ids_med = MaxMeds
    /\ ids_mov = 0
    /\ SinPeticiones

\* any movement log the handlers can leave behind, before a stock query
InitStock ==
    /\ db = TRUE
    /\ medicamentos = inicializar_colecciones
    /\ movimientos \in Libros
    /\ ids_med = MaxMeds
    /\ ids_mov = Len(movimientos)
    /\ SinPeticiones

\* two (stock, stock_minimo) pairs for the status bands
InitEstado ==
    /\ db = TRUE
    /\ medicamentos = <<>>
    /\ movimientos = <<>>
    /\ ids_med = 0
    /\ ids_mov = 0
    /\ vuelo = [w \in Workers |-> Nada]
    /\ entrada \in [s1 : (-1)..MaxStock, m1 : 1..MaxMinimo,
                    s2 : (-1)..MaxStock, m2 : 1..MaxMinimo]
    /\ last = Respuesta("init", 0, 0, Nada, Nada)

\* a log crear_movimiento leaves on the first n seeded medications: one INGRESO
\* of 3 each, then one SALIDA of c[d] each, then 'extra' more SALIDA of
\* medication 1, all dated today
libro_ranking(n, c, extra) ==
    [d \in 1..(2 * n + extra) |->
        nuevo_movimiento(
            IF d <= n
            THEN [tipo |-> "INGRESO", fecha |-> isoformat(Hoy),
                  medicamento_id |-> d, cantidad |-> 3]
            ELSE IF d <= 2 * n
            THEN [tipo |-> "SALIDA", fecha |-> isoformat(Hoy),
                  medicamento_id |-> d - n, cantidad |-> c[d - n]]
            ELSE [tipo |-> "SALIDA", fecha |-> isoformat(Hoy),
                  medicamento_id |-> 1, cantidad |-> 1])]

\* up to MaxRanking dispensed medications, before a demand analysis
InitRanking ==
    /\ db = TRUE
    /\ \E n \in 0..MaxRanking, extra \in 0..1 :
          \E c \in [1..n -> {1, 2}] :
            /\ (extra = 1 => n >= 1)
            /\ medicamentos = catalogo_de(n)
            /\ movimientos = libro_ranking(n, c, extra)
            /\ ids_med = n
            /\ ids_mov = 2 * n + extra
    /\ SinPeticiones

\* the seeded catalogue behind a service started with or without credentials
InitCaida ==
    /\ db \in BOOLEAN
    /\ medicamentos = inicializar_colecciones
    /\ movimientos = <<>>
    /\ ids_med = MaxMeds
    /\ ids_mov = 0
    /\ vuelo = [w \in Workers |-> Nada]
    /\ entrada = [lectura |-> "ok"]
    /\ last = Respuesta("init", 0, 0, Nada, Nada)

\* an empty catalogue, or the first documents of the seeded one
InitOrden ==
    /\ db = TRUE
    /\ \E n \in 0..(MaxMeds - 1) :
            /\ medicamentos = catalogo_de(n)
            /\ ids_med = n
    /\ movimientos = <<>>
    /\ ids_mov = 0
    /\ SinPeticiones

----------------------------------------------------------------------------
(* Specifications *)

\* Requests served one at a time, each handler running to its response
Next ==
    \/ \E data \in PeticionesMedicamento : crear_medicamento(data)
    \/ \E id \in MedIds : eliminar_medicamento_ruta(id)
    \/ \E id \in MedIds, data \in PeticionesMedicamento :
            actualizar_medicamento_ruta(id, data)
    \/ \E data \in PeticionesMovimiento(FechasLibro) : crear_movimiento(data)
    \/ \E id \in MovIds : eliminar_movimiento(id)
    \/ \E id \in MovIds, data \in PeticionesActualizarMovimiento(FechasLibro) :
            actualizar_movimiento(id, data)

Spec == Init /\ [][Next]_vars

\* The catalogue and the references to it, one request at a time
NextCatalogo ==
    \/ \E data \in PeticionesMedicamento : crear_medicamento(data)
    \/ \E id \in MedIds : eliminar_medicamento_ruta(id)
    \/ \E id \in MedIds, data \in PeticionesMedicamento :
            actualizar_medicamento_ruta(id, data)
    \/ \E data \in PeticionesReferencia : crear_movimiento(data)
    \/ \E id \in MovIds : eliminar_movimiento(id)

SpecCatalogo == Init /\ [][NextCatalogo]_vars

\* Only crear_movimiento, one request at a time, from an empty log
NextCrear == \E data \in PeticionesMovimiento(FechasLibro) : crear_movimiento(data)

SpecCrear == Init /\ [][NextCrear]_vars

\* Only crear_movimiento, its requests interleaving between check and insert
NextRace ==
    \/ \E w \in Workers, data \in PeticionesCarrera :
            crear_movimiento_verificar(w, data)
    \/ \E w \in Workers : crear_movimiento_insertar(w)

SpecRace == Init /\ [][NextRace]_vars

\* Stock queries on a given log
NextStock == \E id \in MedIds : leer_stock(id)

SpecStock == InitStock /\ [][NextStock]_vars

\* The status bands on given inputs
NextEstado == clasificar

SpecEstado == InitEstado /\ [][NextEstado]_vars

\* Movements of any date on the seeded catalogue, and the demand analysis
NextDemanda ==
    \/ \E data \in PeticionesValidas(FechasDemanda) : crear_movimiento(data)
    \/ \E dias \in 0..MaxDias : analisis_demanda(dias)

SpecDemanda == InitSemilla /\ [][NextDemanda]_vars

\* Dated movements with and without turno on the seeded catalogue, and the
\* two Excel reports of the period that starts today
NextInforme ==
    \/ \E data \in PeticionesInforme : crear_movimiento(data)
    \/ \E args \in ArgsInforme : generar_reporte_semanal_excel(args)
    \/ \E args \in ArgsInforme : generar_reporte_quincenal_excel(args)

SpecInforme == InitSemilla /\ [][NextInforme]_vars

PeticionesLecturas ==
    {r \in PeticionesInforme : str_le(r.fecha, isoformat(Hoy))}

\* The movements of one medication created, updated and deleted, one request
\* at a time
NextMovimientos ==
    \/ \E data \in PeticionesCarrera : crear_movimiento(data)
    \/ \E id \in MovIds : eliminar_movimiento(id)
    \/ \E id \in MovIds, data \in PeticionesActualizarMovimiento(FechasLibro) :
            actualizar_movimiento(id, data)

SpecMovimientos == InitSemilla /\ [][NextMovimientos]_vars

\* an INGRESO of each medication in the morning, and a SALIDA of medication 1
\* with no turno
PeticionesConTurno ==
    {[turno |-> "M"] @@ r : r \in PeticionesReferencia}
    \cup {[tipo |-> "SALIDA", fecha |-> isoformat(Hoy), medicamento_id |-> 1,
           cantidad |-> 1]}

\* update bodies for the day after: with no turno, with one and with an empty
\* one, and one of cantidad 0
PeticionesActualizarTurno ==
    LET base(c) == [cantidad |-> c, fecha |-> isoformat(Hoy + 1)]
    IN  {base(2), [turno |-> "T"] @@ base(1), [turno |-> ""] @@ base(1),
         [turno |-> "T"] @@ base(0)}

\* Movements of several medications, the first two stored updated with and
\* without a turno
NextActualizar ==
    \/ \E data \in PeticionesConTurno : crear_movimiento(data)
    \/ \E id \in {1, 2}, data \in PeticionesActualizarTurno :
            actualizar_movimiento(id, data)

SpecActualizar == InitSemilla /\ [][NextActualizar]_vars

\* The medication routes on an empty or a seeded catalogue
NextOrden ==
    \/ \E data \in PeticionesMedicamento : crear_medicamento(data)
    \/ \E id \in MedIds : eliminar_medicamento_ruta(id)
    \/ \E id \in MedIds, data \in PeticionesMedicamento :
            actualizar_medicamento_ruta(id, data)

SpecOrden == InitOrden /\ [][NextOrden]_vars

\* The catalogue under requests that carry a stock_minimo
NextMinimo ==
    \/ \E data \in PeticionesMinimo : crear_medicamento(data)
    \/ \E id \in MedIds : eliminar_medicamento_ruta(id)
    \/ \E id \in MedIds, data \in PeticionesMinimo :
            actualizar_medicamento_ruta(id, data)

SpecMinimo == Init /\ [][NextMinimo]_vars

\* Movements of one medication and stock queries while the storage comes and goes
NextCaida ==
    \/ \E data \in PeticionesLecturas : crear_movimiento(data)
    \/ \E id \in MedIds : leer_stock(id)
    \/ cambiar_lectura

SpecCaida == InitCaida /\ [][NextCaida]_vars

\* Movements dated up to today on the seeded catalogue, and every read route
ArgsMovimientos == {[limit |-> 1], [formato |-> "json"]}

NextLecturas ==
    \/ \E data \in PeticionesLecturas : crear_movimiento(data)
    \/ \E id \in MedIds : leer_stock(id)
    \/ get_medicamentos
    \/ \E args \in ArgsMovimientos : get_movimientos(args)
    \/ get_inventario
    \/ get_estadisticas
    \/ \E dias \in 1..MaxDias : analisis_demanda(dias)
    \/ \E args \in ArgsInforme : generar_reporte_semanal_excel(args)
    \/ \E args \in ArgsInforme : generar_reporte_quincenal_excel(args)
    \/ \E args \in ArgsInforme : generar_reporte_semanal_pdf(args)
    \/ \E args \in ArgsInforme : generar_reporte_quincenal_pdf(args)

SpecLecturas == InitSemilla /\ [][NextLecturas]_vars

\* The demand analysis over more medications than it returns, the stream in
\* ascending or in descending order of document id
NextRanking ==
    \E dias \in {MaxDias} :
        analisis_demanda_con(dias, {por_id(where_salida(movimientos)),
                                    al_reves(por_id(where_salida(movimientos)))})

SpecRanking == InitRanking /\ [][NextRanking]_vars

----------------------------------------------------------------------------
(* The derived stock of the data model, stated on the log as a set:          *)
(* the sum of cantidad over INGRESO minus the sum over SALIDA.               *)

RECURSIVE SumaCantidad(_, _)
SumaCantidad(movs, S) ==
    IF S = {} THEN 0
    ELSE LET d == CHOOSE x \in S : TRUE
         IN  movs[d].cantidad + SumaCantidad(movs, S \ {d})

DeTipo(movs, id, tipo) ==
    {d \in DOMAIN movs : movs[d].medicamento_id = id /\ movs[d].tipo = tipo}

StockDerivado(movs, id) ==
    SumaCantidad(movs, DeTipo(movs, id, "INGRESO"))
        - SumaCantidad(movs, DeTipo(movs, id, "SALIDA"))

Referenciado(movs, id) == \E d \in DOMAIN movs : movs[d].medicamento_id = id

\* C1: whatever the log and whatever order the store yields it in,
\* calcular_stock_medicamento(id) returns the sum of cantidad over the INGRESO
\* movements of id minus the sum over its SALIDA movements; the movements of
\* other medications do not contribute.
C1_StockEsSumaConSigno ==
    last.op = "calcular_stock_medicamento"
        => last.body.stock = StockDerivado(movimientos, last.id)

\* C1 witness: a query answered from a stream that yields a later document
\* before an earlier one, over a log holding both tipos of the medication
\* and a movement of another medication.
C1_Witness ==
    /\ last.op = "calcular_stock_medicamento"
    /\ Len(last.body.docs) >= 2
    /\ last.body.docs[1] > last.body.docs[2]
    /\ DeTipo(movimientos, last.id, "INGRESO") # {}
    /\ DeTipo(movimientos, last.id, "SALIDA") # {}
    /\ \E d \in DOMAIN movimientos : movimientos[d].medicamento_id # last.id
    /\ last.body.stock # 0

EsSalidaValida(data) ==
    /\ {"tipo", "fecha", "medicamento_id", "cantidad"} \subseteq DOMAIN data
    /\ data.tipo = "SALIDA"
    /\ data.cantidad > 0

\* C2: a SALIDA whose cantidad exceeds the derived stock of its medication is
\* answered 400 'Stock insuficiente', inserts nothing and leaves every derived
\* stock unchanged; a SALIDA whose cantidad is at most the stock (equal
\* included) is answered 201 and inserted.
C2_SalidaSegunStock ==
    [][(last'.op = "crear_movimiento" /\ EsSalidaValida(last'.data)) =>
        LET data == last'.data
            stock == StockDerivado(movimientos, data.medicamento_id)
        IN  IF data.cantidad > stock
            THEN /\ last'.status = 400
                 /\ last'.body.error = "Stock insuficiente"
                 /\ movimientos' = movimientos
                 /\ \A id \in MedIds :
                        StockDerivado(movimientos', id) = StockDerivado(movimientos, id)
            ELSE /\ last'.status = 201
                 /\ DOMAIN movimientos' = DOMAIN movimientos \cup {last'.id}
                 /\ last'.id \notin DOMAIN movimientos
                 /\ StockDerivado(movimientos', data.medicamento_id)
                        = stock - data.cantidad
       ]_vars

\* C2 witness: a SALIDA rejected although some stock, less than asked, is there.
C2_Witness ==
    /\ last.op = "crear_movimiento"
    /\ last.status = 400
    /\ "stock_actual" \in DOMAIN last.body
    /\ last.body.stock_actual >= 1
    /\ last.body.cantidad_solicitada > last.body.stock_actual

\* C3: from an empty log, crear_movimiento requests served one at a time keep
\* the derived stock of every medication at or above 0.
C3_StockNoNegativo ==
    \A id \in MedIds : StockDerivado(movimientos, id) >= 0

\* C3 witness: accepted SALIDA movements have used up a stock that was there.
C3_Witness ==
    \E id \in MedIds :
        /\ DeTipo(movimientos, id, "SALIDA") # {}
        /\ SumaCantidad(movimientos, DeTipo(movimientos, id, "INGRESO")) >= 2
        /\ StockDerivado(movimientos, id) = 0

\* C4: the insert of crear_movimiento does not look at the stock again: every
\* request that passed its check is inserted and answered 201, whatever was
\* inserted in between; two SALIDA requests that both checked before either
\* inserted are both accepted.
C4_InsertaSinRevalidar ==
    [][\A w \in Workers :
        (vuelo[w] # Nada /\ vuelo'[w] = Nada) =>
            /\ last'.status = 201
            /\ DOMAIN movimientos' = DOMAIN movimientos \cup {ids_mov + 1}
            /\ movimientos'[ids_mov + 1].tipo = vuelo[w].data.tipo
            /\ movimientos'[ids_mov + 1].cantidad = vuelo[w].data.cantidad
            /\ movimientos'[ids_mov + 1].medicamento_id = vuelo[w].data.medicamento_id
       ]_vars

\* C4 witness: the derived stock of a medication is negative after two SALIDA
\* requests were accepted.
C4_Witness ==
    /\ StockDerivado(movimientos, 1) < 0
    /\ Cardinality(DeTipo(movimientos, 1, "SALIDA")) = 2
    /\ last.status = 201

Banda(s, m) ==
    CASE s <= 0 -> "AGOTADO"
      [] s > 0 /\ s <= m -> "CRITICO"
      [] s > m /\ s > 0 /\ 2 * s <= 3 * m -> "BAJO"
      [] OTHER -> "OK"

\* C5: for stock s and minimum m >= 1 the estado is AGOTADO if s <= 0, else
\* CRITICO if s <= m, else BAJO if 2*s <= 3*m, else OK; s = m > 0 gives
\* CRITICO and 2*s = 3*m gives BAJO.
C5_CuatroBandas ==
    last.op = "estado" =>
        /\ last.body.e1 = Banda(entrada.s1, entrada.m1)
        /\ (entrada.s1 = entrada.m1 => last.body.e1 = "CRITICO")
        /\ (2 * entrada.s1 = 3 * entrada.m1 => last.body.e1 = "BAJO")

\* C5 witness: a stock of exactly one and a half times the minimum, classified.
C5_Witness ==
    /\ last.op = "estado"
    /\ 2 * entrada.s1 = 3 * entrada.m1
    /\ last.body.e1 = "BAJO"

Rango(e) ==
    CASE e = "AGOTADO" -> 0
      [] e = "CRITICO" -> 1
      [] e = "BAJO" -> 2
      [] e = "OK" -> 3

\* C6: the estado is monotonic in stock / stock_minimo: with
\* AGOTADO < CRITICO < BAJO < OK, s1*m2 <= s2*m1 implies
\* estado(s1, m1) <= estado(s2, m2).
C6_MonotonaEnLaRazon ==
    (last.op = "estado" /\ entrada.s1 * entrada.m2 <= entrada.s2 * entrada.m1)
        => Rango(last.body.e1) <= Rango(last.body.e2)

\* C6 witness: two pairs with different minimums, the smaller ratio CRITICO
\* and the larger BAJO.
C6_Witness ==
    /\ last.op = "estado"
    /\ entrada.m1 # entrada.m2
    /\ entrada.s1 * entrada.m2 <= entrada.s2 * entrada.m1
    /\ last.body.e1 = "CRITICO"
    /\ last.body.e2 = "BAJO"

\* C7: eliminar_medicamento_ruta(id) answers 400 and leaves medications and
\* movements in place when a movement references id; otherwise it answers 200,
\* the medication id is gone, and every other medication and every movement
\* is unchanged.
C7_EliminarSegunReferencias ==
    [][last'.op = "eliminar_medicamento_ruta" =>
        LET id == last'.id
        IN  IF Referenciado(movimientos, id)
            THEN /\ last'.status = 400
                 /\ medicamentos' = medicamentos
                 /\ movimientos' = movimientos
            ELSE /\ last'.status = 200
                 /\ DOMAIN medicamentos' = DOMAIN medicamentos \ {id}
                 /\ \A d \in DOMAIN medicamentos' : medicamentos'[d] = medicamentos[d]
                 /\ movimientos' = movimientos
       ]_vars

\* C7 witness: the delete of a stored medication was rejected, a movement
\* referencing it, while another medication is stored too.
C7_Witness ==
    /\ last.op = "eliminar_medicamento_ruta"
    /\ last.status = 400
    /\ last.id \in DOMAIN medicamentos
    /\ Referenciado(movimientos, last.id)
    /\ Cardinality(DOMAIN medicamentos) = 2

\* C8: every stored movement's medicamento_id is the id of a stored medication.
C8_ReferenciasValidas ==
    \A d \in DOMAIN movimientos : movimientos[d].medicamento_id \in DOMAIN medicamentos

\* C9: no two stored medications have the same nombre.
C9_NombresUnicos ==
    \A a, b \in DOMAIN medicamentos :
        a # b => medicamentos[a].nombre # medicamentos[b].nombre

\* the day a date text names
DiaDe(fecha) == fecha[1] * 10 + fecha[2]

\* the SALIDA movements of a medication dated from Hoy - dias to Hoy
SalidasEnVentana(movs, id, dias) ==
    {d \in DeTipo(movs, id, "SALIDA") :
        DiaDe(movs[d].fecha) >= Hoy - dias /\ DiaDe(movs[d].fecha) <= Hoy}

\* C10: every entry analisis_demanda(dias) returns has total_dispensado equal
\* to the sum of cantidad, and frecuencia equal to the number, of the SALIDA
\* movements of its medication dated inside the trailing window ending today;
\* no movement dated before the window or after today contributes.
C10_SoloVentana ==
    (last.op = "analisis_demanda" /\ last.status = 200) =>
        \A i \in DOMAIN last.body :
            \E id \in DOMAIN medicamentos :
                LET en_ventana == SalidasEnVentana(movimientos, id, last.data.dias)
                IN  /\ medicamentos[id].nombre = last.body[i].nombre
                    /\ last.body[i].total_dispensado = SumaCantidad(movimientos, en_ventana)
                    /\ last.body[i].frecuencia = Cardinality(en_ventana)

\* the total dispensed of a medication, and the medications with any
Dispensado(id) == SumaCantidad(movimientos, DeTipo(movimientos, id, "SALIDA"))

ConDemanda == {id \in DOMAIN medicamentos : DeTipo(movimientos, id, "SALIDA") # {}}

EntradasDe(body, id) == {i \in DOMAIN body : body[i].nombre = medicamentos[id].nombre}

\* C11: the list analisis_demanda returns holds at most 10 entries, each the
\* total of one dispensed medication and no medication twice; it is in
\* non-increasing order of total_dispensado; it holds every dispensed
\* medication when they are 10 or fewer, and otherwise every medication left
\* out has a total at most that of every entry returned.
C11_DiezMayores ==
    (last.op = "analisis_demanda" /\ last.status = 200) =>
        LET body == last.body
            fuera == {id \in ConDemanda : EntradasDe(body, id) = {}}
        IN  /\ Len(body) <= 10
            /\ Len(body) = IF Cardinality(ConDemanda) < 10
                           THEN Cardinality(ConDemanda) ELSE 10
            /\ \A i \in DOMAIN body :
                    \E id \in ConDemanda :
                        /\ i \in EntradasDe(body, id)
                        /\ body[i].total_dispensado = Dispensado(id)
            /\ \A id \in ConDemanda : Cardinality(EntradasDe(body, id)) <= 1
            /\ \A i, j \in DOMAIN body :
                    i < j => body[i].total_dispensado >= body[j].total_dispensado
            /\ \A id \in fuera : \A i \in DOMAIN body :
                    Dispensado(id) <= body[i].total_dispensado

\* C11 witness: eleven medications dispensed, ten returned with different
\* totals among them, the one left out tied with the last one returned and
\* stored before a medication that was returned.
C11_Witness ==
    /\ last.op = "analisis_demanda"
    /\ last.status = 200
    /\ Cardinality(ConDemanda) = 11
    /\ Len(last.body) = 10
    /\ last.body[1].total_dispensado > last.body[10].total_dispensado
    /\ \E id \in ConDemanda :
            /\ EntradasDe(last.body, id) = {}
            /\ Dispensado(id) = last.body[10].total_dispensado
            /\ \E otro \in ConDemanda : otro > id /\ EntradasDe(last.body, otro) # {}

EsInforme ==
    /\ last.op \in {"generar_reporte_semanal_excel", "generar_reporte_quincenal_excel"}
    /\ last.status = 200

\* C12: the sheet of a report has, from column 5 on, the three columns M, T, N
\* of each calendar day of the range in order and DEMANDA TOTAL right after
\* them; every medication row walks exactly those columns and writes nowhere
\* else, whatever the movements: 21 demand columns for the weekly report
\* (fecha_fin = fecha_inicio + 6) and 45 for the biweekly (fecha_inicio + 14).
C12_TresColumnasPorDia ==
    EsInforme =>
        LET wb == last.body
            n == IF last.op = "generar_reporte_semanal_excel" THEN 21 ELSE 45
            inicio == DiaDe(last.data.fecha_inicio)
        IN  /\ wb.col_demanda = 5 + n
            /\ DOMAIN wb.turnos = 5..(4 + n)
            /\ \A k \in 0..((n \div 3) - 1) :
                    /\ wb.fechas[5 + 3 * k] = isoformat(inicio + k)
                    /\ wb.turnos[5 + 3 * k] = "M"
                    /\ wb.turnos[6 + 3 * k] = "T"
                    /\ wb.turnos[7 + 3 * k] = "N"
            /\ DOMAIN wb.fechas = {5 + 3 * k : k \in 0..((n \div 3) - 1)}
            /\ Len(wb.filas) = Cardinality(DOMAIN medicamentos)
            /\ \A i \in DOMAIN wb.filas :
                    /\ wb.filas[i].col_idx = wb.col_demanda
                    /\ wb.filas[i].col_demanda = 5 + n
                    /\ DOMAIN wb.filas[i].celdas \subseteq 5..(4 + n)

\* C12 witness: a biweekly sheet whose first row has a cell written in the
\* last demand column, from a log of three movements, and whose second row
\* has none written.
C12_Witness ==
    /\ last.op = "generar_reporte_quincenal_excel"
    /\ last.status = 200
    /\ Cardinality(DOMAIN movimientos) = 3
    /\ Len(last.body.filas) = 2
    /\ 49 \in DOMAIN last.body.filas[1].celdas
    /\ DOMAIN last.body.filas[2].celdas = {}

Lecturas ==
    {"calcular_stock_medicamento", "get_medicamentos", "get_movimientos",
     "get_inventario", "get_estadisticas", "analisis_demanda",
     "generar_reporte_semanal_excel", "generar_reporte_quincenal_excel",
     "generar_reporte_semanal_pdf", "generar_reporte_quincenal_pdf"}

\* the stock a read reports for a medication id, when it reports one
StocksLeidos(r) ==
    IF r.op = "calcular_stock_medicamento" THEN {<<r.id, r.body.stock>>}
    ELSE IF r.op = "get_inventario" /\ r.status = 200
    THEN {<<r.body[i].id, r.body[i].stock_actual>> : i \in DOMAIN r.body}
    ELSE {}

\* C13: with the storage available, every read route and
\* calcular_stock_medicamento leave the medications and the movements as they
\* were, and a read that follows another read reports the same stock for
\* every medication both report.
C13_LecturasSinEfecto ==
    [][last'.op \in Lecturas =>
        /\ medicamentos' = medicamentos
        /\ movimientos' = movimientos
        /\ \A a \in StocksLeidos(last), b \in StocksLeidos(last') :
                a[1] = b[1] => a[2] = b[2]
        /\ \A b \in StocksLeidos(last') : b[2] = StockDerivado(movimientos, b[1])
      ]_vars

\* C13 witness: the inventory read over a log of three movements that leaves
\* medication 1 with stock.
C13_Witness ==
    /\ last.op = "get_inventario"
    /\ last.status = 200
    /\ Cardinality(DOMAIN movimientos) = 3
    /\ \E i \in DOMAIN last.body :
            last.body[i].id = 1 /\ last.body[i].stock_actual >= 1

C15_MinimoPositivo ==
    [][/\ \A d \in DOMAIN medicamentos' : medicamentos'[d].stock_minimo >= 1
       /\ (last'.op = "crear_medicamento" =>
              /\ (Get(last'.data, "stock_minimo", 10) < 1 =>
                      last'.status = 400 /\ medicamentos' = medicamentos)
              /\ (last'.status = 201 =>
                      medicamentos'[last'.id].stock_minimo
                          = Get(last'.data, "stock_minimo", 10))
              /\ (last'.status # 201 => medicamentos' = medicamentos))
       /\ (last'.op = "actualizar_medicamento_ruta" =>
              /\ (Get(last'.data, "stock_minimo", 1) < 1 =>
                      last'.status = 400 /\ medicamentos' = medicamentos)
              /\ (last'.status = 200 =>
                      medicamentos'[last'.id].stock_minimo
                          = Get(last'.data, "stock_minimo",
                                medicamentos[last'.id].stock_minimo))
              /\ (last'.status # 200 => medicamentos' = medicamentos))
      ]_vars

\* C15 witness: a medication created with stock_minimo 2 was renamed by an
\* update that supplied no stock_minimo, and still has 2.
C15_Witness ==
    /\ last.op = "actualizar_medicamento_ruta"
    /\ last.status = 200
    /\ "stock_minimo" \notin DOMAIN last.data
    /\ medicamentos[last.id].stock_minimo = 2
    /\ medicamentos[last.id].nombre = <<"B">>
    /\ last.id = 1

\* C16: every stored movement has cantidad > 0 and tipo INGRESO or SALIDA,
\* whatever crear_movimiento, actualizar_movimiento and eliminar_movimiento
\* were asked.
C16_MovimientosBienFormados ==
    \A d \in DOMAIN movimientos :
        /\ movimientos[d].cantidad > 0
        /\ movimientos[d].tipo \in {"INGRESO", "SALIDA"}

\* C16 witness: an update has written the cantidad of a stored movement, in
\* a log that holds both tipos.
C16_Witness ==
    /\ last.op = "actualizar_movimiento"
    /\ last.status = 200
    /\ last.id \in DOMAIN movimientos
    /\ movimientos[last.id].cantidad = last.data.cantidad
    /\ \E a, b \in DOMAIN movimientos :
            movimientos[a].tipo = "INGRESO" /\ movimientos[b].tipo = "SALIDA"

MovimientoInvalido(data) ==
    \/ ~({"tipo", "fecha", "medicamento_id", "cantidad"} \subseteq DOMAIN data)
    \/ data.tipo \notin {"INGRESO", "SALIDA"}
    \/ data.cantidad <= 0

\* C17: crear_movimiento answers 400 and inserts nothing when tipo, fecha,
\* medicamento_id or cantidad is missing, when tipo is neither INGRESO nor
\* SALIDA, or when cantidad is 0 or less.
C17_RechazaInvalidos ==
    [][(last'.op = "crear_movimiento" /\ MovimientoInvalido(last'.data)) =>
        /\ last'.status = 400
        /\ movimientos' = movimientos
        /\ ids_mov' = ids_mov
      ]_vars

\* C17 witness: a SALIDA of a negative cantidad was rejected although its
\* medication has stock.
C17_Witness ==
    /\ last.op = "crear_movimiento"
    /\ last.status = 400
    /\ "cantidad" \in DOMAIN last.data
    /\ last.data.cantidad < 0
    /\ StockDerivado(movimientos, last.data.medicamento_id) >= 1

\* an update request its handler's own checks let through
ActualizacionBienFormada(r) ==
    IF r.op = "actualizar_movimiento"
    THEN /\ {"cantidad", "fecha"} \subseteq DOMAIN r.data
         /\ r.data.cantidad >= 1
    ELSE /\ "nombre" \in DOMAIN r.data
         /\ strip(r.data.nombre) # <<>>
         /\ Get(r.data, "stock_minimo", 1) >= 1

\* C18: a well-formed update of an id that names no stored document is
\* answered 404 and leaves medications and movements as they were, for
\* actualizar_movimiento and for actualizar_medicamento_ruta alike.
C18_ActualizarInexistente ==
    [][(/\ last'.op \in {"actualizar_movimiento", "actualizar_medicamento_ruta"}
        /\ ActualizacionBienFormada(last')
        /\ last'.id \notin (IF last'.op = "actualizar_movimiento"
                             THEN DOMAIN movimientos ELSE DOMAIN medicamentos))
       => /\ last'.status = 404
          /\ medicamentos' = medicamentos
          /\ movimientos' = movimientos
      ]_vars

\* C19: the derived stock of every medication is 0 or more in every state
\* that crear_movimiento, actualizar_movimiento and eliminar_movimiento
\* requests served one at a time can reach.
C19_StockNoNegativoTrasCambios ==
    \A id \in DOMAIN medicamentos :
        SumaCantidad(movimientos, DeTipo(movimientos, id, "SALIDA"))
            <= SumaCantidad(movimientos, DeTipo(movimientos, id, "INGRESO"))

RECURSIVE SumaCeldas(_)
SumaCeldas(celdas) ==
    IF DOMAIN celdas = {} THEN 0
    ELSE LET c == CHOOSE x \in DOMAIN celdas : TRUE
         IN  celdas[c] + SumaCeldas([x \in DOMAIN celdas \ {c} |-> celdas[x]])

\* C20: in every row of a report DEMANDA TOTAL is the sum of the cells the
\* row has by day and shift, the movements without turno included.
C20_TotalEsSumaDeCeldas ==
    EsInforme =>
        \A i \in DOMAIN last.body.filas :
            last.body.filas[i].demanda = SumaCeldas(last.body.filas[i].celdas)

\* C21: an actualizar_movimiento answered 200 writes cantidad and fecha of the
\* movement id, and its turno when a non-empty one is sent; the tipo and the
\* medicamento_id of that movement, every other movement and every
\* medication stay as they were, so the derived stock of every other
\* medication is unchanged.
C21_SoloCantidadFechaTurno ==
    [][(last'.op = "actualizar_movimiento" /\ last'.status = 200) =>
        LET id == last'.id
            data == last'.data
        IN  /\ id \in DOMAIN movimientos
            /\ DOMAIN movimientos' = DOMAIN movimientos
            /\ \A d \in DOMAIN movimientos \ {id} : movimientos'[d] = movimientos[d]
            /\ movimientos'[id].tipo = movimientos[id].tipo
            /\ movimientos'[id].medicamento_id = movimientos[id].medicamento_id
            /\ movimientos'[id].cantidad = data.cantidad
            /\ movimientos'[id].fecha = data.fecha
            /\ movimientos'[id].turno =
                   IF "turno" \in DOMAIN data /\ data.turno # ""
                   THEN data.turno ELSE movimientos[id].turno
            /\ medicamentos' = medicamentos
            /\ \A m \in MedIds :
                   m # movimientos[id].medicamento_id =>
                       StockDerivado(movimientos', m) = StockDerivado(movimientos, m)
      ]_vars

\* C21 witness: the update of a movement stored in the morning, sent with
\* cantidad 2 and without turno, while a movement of another medication is
\* stored too.
C21_Witness ==
    /\ last.op = "actualizar_movimiento"
    /\ last.status = 200
    /\ "turno" \notin DOMAIN last.data
    /\ movimientos[last.id].turno = "M"
    /\ movimientos[last.id].cantidad = 2
    /\ \E d \in DOMAIN movimientos :
            movimientos[d].medicamento_id # movimientos[last.id].medicamento_id

OrdenesDistintos(meds) ==
    \A a, b \in DOMAIN meds : a # b => meds[a].orden # meds[b].orden

\* C22: from an empty catalogue or from seeded documents (orden 0, 1, ...),
\* after every crear_medicamento, actualizar_medicamento_ruta and
\* eliminar_medicamento_ruta served one at a time no two stored medications
\* have the same orden: a created medication gets the largest stored orden
\* plus 1 (1 on an empty catalogue) and no request changes a stored orden.
C22_OrdenDistinto ==
    [][/\ OrdenesDistintos(medicamentos')
       /\ \A d \in DOMAIN medicamentos \cap DOMAIN medicamentos' :
              medicamentos'[d].orden = medicamentos[d].orden
       /\ \A d \in DOMAIN medicamentos' \ DOMAIN medicamentos :
              /\ last'.op = "crear_medicamento"
              /\ \A e \in DOMAIN medicamentos :
                     medicamentos'[d].orden > medicamentos[e].orden
              /\ (DOMAIN medicamentos = {} => medicamentos'[d].orden = 1)
              /\ (DOMAIN medicamentos # {} =>
                     \E e \in DOMAIN medicamentos :
                         medicamentos'[d].orden = medicamentos[e].orden + 1)
      ]_vars

\* C22 witness: a medication was created next to a seeded one that had been
\* renamed, the two with orden 0 and 1.
C22_Witness ==
    /\ last.op = "crear_medicamento"
    /\ last.status = 201
    /\ Cardinality(DOMAIN medicamentos) = 2
    /\ {medicamentos[d].orden : d \in DOMAIN medicamentos} = {0, 1}
    /\ medicamentos[1].nombre = <<"B">>

====
